---- MODULE Spec2Model ----
(***************************************************************************)
(* Model of the salary-comparison dashboard: the dataset comparison        *)
(* engine (diffLogic: compareDatasets, buildKeyMap, findFieldDifferences,   *)
(* normalizeValue, filterResultsBySearch) and the state it is used from.    *)
(*                                                                         *)
(* JavaScript strings are sequences of one-character strings, so that      *)
(* trim, toLowerCase and includes are computed and not assumed.            *)
(* JavaScript values are records [kind, s, n]; an optional value           *)
(* (T | undefined, T | null) is a sequence of length 0 or 1.               *)
(***************************************************************************)
EXTENDS Integers, Sequences, FiniteSets, TLC

(***************************************************************************)
(* JavaScript values                                                       *)
(***************************************************************************)
Undefined == [kind |-> "undefined", s |-> <<>>, n |-> 0]

Null == [kind |-> "null", s |-> <<>>, n |-> 0]

Str(chars) == [kind |-> "string", s |-> chars, n |-> 0]

Num(k) == [kind |-> "number", s |-> <<>>, n |-> k]

Bool(b) == [kind |-> "boolean", s |-> <<>>, n |-> IF b THEN 1 ELSE 0]

\* A key that the object does not have (Object.keys leaves it out).
Absent == [kind |-> "absent", s |-> <<>>, n |-> 0]

None == <<>>

Some(x) == <<x>>

(***************************************************************************)
(* String primitives                                                       *)
(***************************************************************************)
IsSpace(c) == c \in {" ", "\t", "\n"}

\* String.prototype.trim: drop leading and trailing white space.
RECURSIVE TrimStart(_)
TrimStart(str) ==
    IF str = <<>> THEN <<>>
    ELSE IF IsSpace(Head(str)) THEN TrimStart(Tail(str))
    ELSE str

RECURSIVE TrimEnd(_)
TrimEnd(str) ==
    IF str = <<>> THEN <<>>
    ELSE IF IsSpace(str[Len(str)]) THEN TrimEnd(SubSeq(str, 1, Len(str) - 1))
    ELSE str

Trim(str) == TrimEnd(TrimStart(str))

UpperCase == <<"A", "B", "C", "D", "E", "F", "G", "H", "I", "J", "K", "L", "M",
               "N", "O", "P", "Q", "R", "S", "T", "U", "V", "W", "X", "Y", "Z">>

LowerCase == <<"a", "b", "c", "d", "e", "f", "g", "h", "i", "j", "k", "l", "m",
               "n", "o", "p", "q", "r", "s", "t", "u", "v", "w", "x", "y", "z">>

LowerChar(c) ==
    IF \E i \in DOMAIN UpperCase : UpperCase[i] = c
    THEN LowerCase[CHOOSE i \in DOMAIN UpperCase : UpperCase[i] = c]
    ELSE c

\* String.prototype.toLowerCase
ToLowerCase(str) == [i \in DOMAIN str |-> LowerChar(str[i])]

\* String.prototype.includes
Includes(str, sub) ==
    \E i \in 1..(Len(str) - Len(sub) + 1) : SubSeq(str, i, i + Len(sub) - 1) = sub

Digits == <<"0", "1", "2", "3", "4", "5", "6", "7", "8", "9">>

\* String(n) for a non-negative integer n.
RECURSIVE NumToString(_)
NumToString(k) ==
    IF k < 10 THEN <<Digits[k + 1]>>
    ELSE NumToString(k \div 10) \o <<Digits[(k % 10) + 1]>>

\* String(value)
JsString(v) ==
    CASE v.kind = "string" -> v.s
      [] v.kind = "number" -> NumToString(v.n)
      [] v.kind = "boolean" ->
            IF v.n = 1 THEN <<"t", "r", "u", "e">> ELSE <<"f", "a", "l", "s", "e">>
      [] v.kind = "null" -> <<"n", "u", "l", "l">>
      [] OTHER -> <<"u", "n", "d", "e", "f", "i", "n", "e", "d">>

\* ToBoolean(value), as `||` and `!` apply it.
Truthy(v) ==
    CASE v.kind = "string" -> v.s # <<>>
      [] v.kind = "number" -> v.n # 0
      [] v.kind = "boolean" -> v.n = 1
      [] OTHER -> FALSE

(***************************************************************************)
(* Rows: Record<string, unknown>                                           *)
(***************************************************************************)
\* The property names a row can have, in property (header) order.
FieldOrder == <<"id", "name">>

Fields == {FieldOrder[i] : i \in DOMAIN FieldOrder}

\* {}
EmptyRow == [f \in Fields |-> Absent]

\* row[field]
Get(row, field) ==
    IF field \in Fields /\ row[field] # Absent THEN row[field] ELSE Undefined

\* Object.keys(row)
ObjectKeys(row) == SelectSeq(FieldOrder, LAMBDA f : row[f] # Absent)

\* Object.values(row)
ObjectValues(row) == [i \in DOMAIN ObjectKeys(row) |-> row[ObjectKeys(row)[i]]]

(***************************************************************************)
(* normalizeValue                                                          *)
(***************************************************************************)
\* Mutant of NormalizeValue: only leading white space is removed.
NormalizeValueTrimsStart(value) ==
    IF value.kind = "null" \/ value.kind = "undefined" THEN <<>>
    ELSE IF value.kind = "string" THEN TrimStart(value.s)
    ELSE IF value.kind = "number" THEN JsString(value)
    ELSE TrimStart(JsString(value))

NormalizeValue(value) ==
    IF value.kind = "null" \/ value.kind = "undefined" THEN <<>>
    ELSE IF value.kind = "string" THEN Trim(value.s)
    ELSE IF value.kind = "number" THEN JsString(value)
    ELSE Trim(JsString(value))

(***************************************************************************)
(* Map<string, Row>: entries [key, row] in insertion order                  *)
(***************************************************************************)
MapKeys(map) == {map[i].key : i \in DOMAIN map}

\* Map.prototype.has
MapHas(map, key) == key \in MapKeys(map)

\* Map.prototype.get: the row, or undefined (None)
MapGet(map, key) ==
    IF MapHas(map, key)
    THEN Some(map[CHOOSE i \in DOMAIN map : map[i].key = key].row)
    ELSE None

\* Mutant of MapSet: a key already present moves to the end with its new value.
MapSetMovesToEnd(map, key, row) ==
    Append(SelectSeq(map, LAMBDA entry : entry.key # key), [key |-> key, row |-> row])

\* Mutant of MapSet: every set adds an entry, also for a key already present.
MapSetAlwaysAppends(map, key, row) == Append(map, [key |-> key, row |-> row])

\* Map.prototype.set: a key already present keeps its position and gets the
\* new value; a new key goes to the end.
MapSet(map, key, row) ==
    IF MapHas(map, key)
    THEN [i \in DOMAIN map |->
            IF map[i].key = key THEN [key |-> key, row |-> row] ELSE map[i]]
    ELSE Append(map, [key |-> key, row |-> row])

(***************************************************************************)
(* buildKeyMap                                                             *)
(***************************************************************************)
\* const keyValue = String(row[keyField] || '')
KeyValueOf(row, keyField) ==
    IF Truthy(Get(row, keyField)) THEN JsString(Get(row, keyField)) ELSE <<>>

RECURSIVE BuildKeyMapFrom(_, _, _)
BuildKeyMapFrom(map, data, keyField) ==
    IF data = <<>> THEN map
    ELSE LET row == Head(data)
             keyValue == KeyValueOf(row, keyField)
         IN  BuildKeyMapFrom(
                 IF keyValue # <<>> THEN MapSet(map, keyValue, row) ELSE map,
                 Tail(data), keyField)

BuildKeyMap(data, keyField) == BuildKeyMapFrom(<<>>, data, keyField)

(***************************************************************************)
(* findFieldDifferences                                                    *)
(***************************************************************************)
\* new Set([...Object.keys(row1), ...Object.keys(row2)]) in insertion order
RECURSIVE Dedup(_, _)
Dedup(seen, seq) ==
    IF seq = <<>> THEN seen
    ELSE IF \E i \in DOMAIN seen : seen[i] = Head(seq)
         THEN Dedup(seen, Tail(seq))
         ELSE Dedup(Append(seen, Head(seq)), Tail(seq))

\* Mutant of AllFields: only the first row's fields are looked at.
AllFieldsOfFirstRow(row1, row2) == Dedup(<<>>, ObjectKeys(row1))

AllFields(row1, row2) == Dedup(<<>>, ObjectKeys(row1) \o ObjectKeys(row2))

\* Mutant of IsExcluded: the test is inverted.
IsExcludedInverted(excludedCols, field) == field \notin excludedCols

\* if (excludedColumns.has(field)) return;
IsExcluded(excludedCols, field) == field \in excludedCols

\* Mutant of ValuesDiffer: the second value is not normalized.
ValuesDifferSecondRaw(value1, value2) == NormalizeValue(value1) # JsString(value2)

\* normalized1 !== normalized2
ValuesDiffer(value1, value2) == NormalizeValue(value1) # NormalizeValue(value2)

\* differences[field] = { before: value1, after: value2 }
DifferenceEntry(field, value1, value2) ==
    [field |-> field, before |-> value1, after |-> value2]

\* The differences object, as the sequence of its entries in insertion order.
RECURSIVE FieldDifferencesFrom(_, _, _, _, _)
FieldDifferencesFrom(differences, fields, row1, row2, excludedCols) ==
    IF fields = <<>> THEN differences
    ELSE LET field == Head(fields)
             value1 == Get(row1, field)
             value2 == Get(row2, field)
         IN  FieldDifferencesFrom(
                 IF ~IsExcluded(excludedCols, field) /\ ValuesDiffer(value1, value2)
                 THEN Append(differences, DifferenceEntry(field, value1, value2))
                 ELSE differences,
                 Tail(fields), row1, row2, excludedCols)

FindFieldDifferences(row1, row2, excludedCols) ==
    FieldDifferencesFrom(<<>>, AllFields(row1, row2), row1, row2, excludedCols)

(***************************************************************************)
(* compareDatasets                                                         *)
(***************************************************************************)
RemovedDifference(key, kf, row1) ==
    [type |-> "removed", keyValue |-> key, keyField |-> kf,
     data1 |-> row1, data2 |-> None, differences |-> None]

ChangedDifference(key, kf, row1, row2, differences) ==
    [type |-> "changed", keyValue |-> key, keyField |-> kf,
     data1 |-> row1, data2 |-> Some(row2), differences |-> Some(differences)]

AddedDifference(key, kf, row2) ==
    [type |-> "added", keyValue |-> key, keyField |-> kf,
     data1 |-> EmptyRow, data2 |-> Some(row2), differences |-> None]

\* map1.forEach(...): the removed and the changed rows, in map1's order.
RECURSIVE RemovedAndChanged(_, _, _, _, _)
RemovedAndChanged(acc, entries, map2, kf, excludedCols) ==
    IF entries = <<>> THEN acc
    ELSE LET key == Head(entries).key
             row1 == Head(entries).row
             row2 == MapGet(map2, key)
             differences ==
                 IF row2 = None THEN <<>>
                 ELSE FindFieldDifferences(row1, row2[1], excludedCols)
             next ==
                 IF row2 = None
                 THEN [acc EXCEPT !.removed =
                          Append(@, RemovedDifference(key, kf, row1))]
                 ELSE IF Len(differences) > 0
                 THEN [acc EXCEPT !.changed =
                          Append(@, ChangedDifference(key, kf, row1, row2[1],
                                                      differences))]
                 ELSE acc
         IN  RemovedAndChanged(next, Tail(entries), map2, kf, excludedCols)

\* map2.forEach(...): the added rows, in map2's order.
RECURSIVE AddedRows(_, _, _, _)
AddedRows(added, entries, map1, kf) ==
    IF entries = <<>> THEN added
    ELSE LET key == Head(entries).key
             row2 == Head(entries).row
         IN  AddedRows(
                 IF ~MapHas(map1, key)
                 THEN Append(added, AddedDifference(key, kf, row2))
                 ELSE added,
                 Tail(entries), map1, kf)

\* Mutant of TotalOf: the changed rows are not counted.
TotalWithoutChanged(added, removed, changed) == Len(added) + Len(removed)

\* total: added.length + removed.length + changed.length
TotalOf(added, removed, changed) == Len(added) + Len(removed) + Len(changed)

CompareDatasets(d1, d2, kf, excludedCols) ==
    LET map1 == BuildKeyMap(d1, kf)
        map2 == BuildKeyMap(d2, kf)
        rc == RemovedAndChanged([removed |-> <<>>, changed |-> <<>>],
                                map1, map2, kf, excludedCols)
        added == AddedRows(<<>>, map2, map1, kf)
    IN  [added |-> added, removed |-> rc.removed, changed |-> rc.changed,
         total |-> TotalOf(added, rc.removed, rc.changed)]

(***************************************************************************)
(* filterResultsBySearch                                                   *)
(***************************************************************************)
\* Mutant of LowerSearch: the term is not trimmed.
LowerSearchUntrimmed(term) == ToLowerCase(term)

\* searchTerm.toLowerCase().trim()
LowerSearch(term) == Trim(ToLowerCase(term))

\* Mutant of ValueMatches: the value's text is not lowercased.
ValueMatchesCaseSensitive(value, lowerSearch) ==
    Includes(JsString(value), lowerSearch)

ValueMatches(value, lowerSearch) ==
    Includes(ToLowerCase(JsString(value)), lowerSearch)

AnyValueMatches(row, lowerSearch) ==
    \E i \in DOMAIN ObjectValues(row) : ValueMatches(ObjectValues(row)[i], lowerSearch)

\* const filterRow = (diff) => ...
FilterRow(diff, lowerSearch) ==
    \/ Includes(ToLowerCase(diff.keyValue), lowerSearch)
    \/ AnyValueMatches(diff.data1, lowerSearch)
    \/ (diff.data2 # None /\ AnyValueMatches(diff.data2[1], lowerSearch))

FilterDiffs(diffs, lowerSearch) ==
    SelectSeq(diffs, LAMBDA diff : FilterRow(diff, lowerSearch))

\* Mutant of FilterResultsBySearch: the input's total is carried over.
FilterResultsBySearchKeepsTotal(res, term) ==
    LET lowerSearch == LowerSearch(term)
    IN  IF lowerSearch = <<>> THEN res
        ELSE [added |-> FilterDiffs(res.added, lowerSearch),
              removed |-> FilterDiffs(res.removed, lowerSearch),
              changed |-> FilterDiffs(res.changed, lowerSearch),
              total |-> res.total]

FilterResultsBySearch(res, term) ==
    LET lowerSearch == LowerSearch(term)
    IN  IF lowerSearch = <<>> THEN res
        ELSE [added |-> FilterDiffs(res.added, lowerSearch),
              removed |-> FilterDiffs(res.removed, lowerSearch),
              changed |-> FilterDiffs(res.changed, lowerSearch),
              total |-> 0]

(***************************************************************************)
(* sortDifferences                                                         *)
(***************************************************************************)
\* The characters of the model in ascending UTF-16 code unit order.
CodeOrder == <<"\t", "\n", " ">> \o Digits \o UpperCase \o LowerCase

CharCode(c) == CHOOSE i \in DOMAIN CodeOrder : CodeOrder[i] = c

\* a < b on strings: lexicographic by code unit.
RECURSIVE StringLess(_, _)
StringLess(a, b) ==
    IF b = <<>> THEN FALSE
    ELSE IF a = <<>> THEN TRUE
    ELSE IF Head(a) = Head(b) THEN StringLess(Tail(a), Tail(b))
    ELSE CharCode(Head(a)) < CharCode(Head(b))

\* a.data1[sortField] || a.data2?.[sortField] || '', then String(..).toLowerCase()
SortValue(diff, sf) ==
    LET v1 == Get(diff.data1, sf)
        v2 == IF diff.data2 = None THEN Undefined ELSE Get(diff.data2[1], sf)
        chosen == IF Truthy(v1) THEN v1
                  ELSE IF Truthy(v2) THEN v2
                  ELSE Str(<<>>)
    IN  ToLowerCase(JsString(chosen))

\* The comparator passed to sort: negative, zero or positive.
SortCompare(a, b, sf, ascending) ==
    LET valueA == SortValue(a, sf)
        valueB == SortValue(b, sf)
    IN  IF StringLess(valueA, valueB) THEN (IF ascending THEN -1 ELSE 1)
        ELSE IF StringLess(valueB, valueA) THEN (IF ascending THEN 1 ELSE -1)
        ELSE 0

\* Mutant of InsertSorted: an element goes before the elements it ties with.
RECURSIVE InsertSortedBeforeTies(_, _, _, _)
InsertSortedBeforeTies(sorted, x, sf, ascending) ==
    IF sorted = <<>> THEN <<x>>
    ELSE IF SortCompare(Head(sorted), x, sf, ascending) < 0
         THEN <<Head(sorted)>> \o InsertSortedBeforeTies(Tail(sorted), x, sf, ascending)
         ELSE <<x>> \o sorted

\* Array.prototype.sort is stable: an element goes after every element that
\* does not compare greater than it.
RECURSIVE InsertSorted(_, _, _, _)
InsertSorted(sorted, x, sf, ascending) ==
    IF sorted = <<>> THEN <<x>>
    ELSE IF SortCompare(Head(sorted), x, sf, ascending) <= 0
         THEN <<Head(sorted)>> \o InsertSorted(Tail(sorted), x, sf, ascending)
         ELSE <<x>> \o sorted

RECURSIVE SortFrom(_, _, _, _)
SortFrom(sorted, rest, sf, ascending) ==
    IF rest = <<>> THEN sorted
    ELSE SortFrom(InsertSorted(sorted, Head(rest), sf, ascending),
                  Tail(rest), sf, ascending)

SortDifferences(differences, sf, ascending) ==
    SortFrom(<<>>, differences, sf, ascending)

(***************************************************************************)
(* CompareDashboard: derived values                                        *)
(***************************************************************************)
\* availableColumns, as the set of its elements
AvailableColumns(cols1, cols2) ==
    {cols1[i] : i \in DOMAIN cols1} \cup {cols2[i] : i \in DOMAIN cols2}

\* The displayResults memo: null (None), or the filtered result with allDiffs.
DisplayResults(res, term, sf, ascending) ==
    IF res = None THEN None
    ELSE LET filtered == FilterResultsBySearch(res[1], term)
             allDiffs == filtered.added \o filtered.removed \o filtered.changed
         IN  Some([added |-> filtered.added,
                   removed |-> filtered.removed,
                   changed |-> filtered.changed,
                   total |-> filtered.total,
                   allDiffs |-> IF sf # ""
                                THEN SortDifferences(allDiffs, sf, ascending)
                                ELSE allDiffs])

(***************************************************************************)
(* State: the useState cells of CompareDashboard, the displayResults memo   *)
(* and the uploads whose parseExcelFile promise has not settled yet        *)
(***************************************************************************)
VARIABLES file1, file2, columns1, columns2, data1, data2, keyField,
          excludedColumns, results, searchTerm, sortField, sortAscending,
          loading, error, displayResults, pendingUploads

vars == <<file1, file2, columns1, columns2, data1, data2, keyField,
          excludedColumns, results, searchTerm, sortField, sortAscending,
          loading, error, displayResults, pendingUploads>>

(***************************************************************************)
(* Bounded inputs                                                          *)
(***************************************************************************)
\* Rows of both datasets together.
MaxRows == 3

Row(id, name) == [f \in Fields |-> IF f = "id" THEN id ELSE name]

SampleRows ==
    { Row(Str(<<"1">>), Str(<<"a">>)),
      Row(Str(<<"1">>), Str(<<" ", "a">>)),
      Row(Str(<<"1">>), Str(<<"B">>)),
      Row(Str(<<"1">>), Absent),
      Row(Str(<<" ", "1", " ">>), Str(<<"a">>)),
      Row(Num(0), Str(<<"a">>)),
      Row(Str(<<" ">>), Str(<<"B">>)),
      Row(Str(<<>>), Null) }

RECURSIVE SeqsUpTo(_, _)
SeqsUpTo(S, n) ==
    IF n = 0 THEN {<<>>}
    ELSE LET shorter == SeqsUpTo(S, n - 1)
         IN  shorter \cup {Append(q, x) : q \in shorter, x \in S}

DatasetPairs ==
    {p \in SeqsUpTo(SampleRows, MaxRows) \X SeqsUpTo(SampleRows, MaxRows) :
        Len(p[1]) + Len(p[2]) <= MaxRows}




\* A field of the rows, or no field name.
KeyFieldNames == Fields \cup {""}

\* Rows of both datasets together, where the result is searched and sorted.
MaxViewRows == 2

ViewPairs ==
    {p \in SeqsUpTo(SampleRows, MaxViewRows) \X SeqsUpTo(SampleRows, MaxViewRows) :
        Len(p[1]) + Len(p[2]) <= MaxViewRows}

SearchTerms == {<<>>, <<" ">>, <<" ", " ">>, <<"a">>, <<" ", "B", " ">>, <<"1">>}

(***************************************************************************)
(* The comparison engine on arbitrary inputs: one call on the inputs drawn  *)
(* (the engine keeps nothing between calls)                                *)
(***************************************************************************)
EngineInit ==
    /\ file1 = None /\ file2 = None
    /\ columns1 = <<>> /\ columns2 = <<>>
    /\ \E p \in DatasetPairs : data1 = p[1] /\ data2 = p[2]
    /\ keyField = ""
    /\ excludedColumns = {}
    /\ results = None
    /\ searchTerm = <<>>
    /\ sortField = ""
    /\ sortAscending = TRUE
    /\ loading = FALSE
    /\ error = ""
    /\ displayResults = None
    /\ pendingUploads = {}

\* results = compareDatasets(data1, data2, kf, excluded)
Compare(kf, excluded) ==
    /\ results = None
    /\ keyField' = kf
    /\ excludedColumns' = excluded
    /\ results' = Some(CompareDatasets(data1, data2, kf, excluded))
    /\ displayResults' = DisplayResults(results', searchTerm, sortField, sortAscending)
    /\ UNCHANGED <<file1, file2, columns1, columns2, data1, data2, searchTerm,
                   sortField, sortAscending, loading, error, pendingUploads>>

\* results = compareDatasets(data1, data1, kf, excluded): the same dataset on
\* both sides.
SelfCompare(kf, excluded) ==
    /\ results = None
    /\ data2' = data1
    /\ keyField' = kf
    /\ excludedColumns' = excluded
    /\ results' = Some(CompareDatasets(data1, data1, kf, excluded))
    /\ displayResults' = DisplayResults(results', searchTerm, sortField, sortAscending)
    /\ UNCHANGED <<file1, file2, columns1, columns2, data1, searchTerm,
                   sortField, sortAscending, loading, error, pendingUploads>>

EngineNext ==
    \E kf \in KeyFieldNames, excluded \in SUBSET Fields :
        \/ Compare(kf, excluded)
        \/ SelfCompare(kf, excluded)

SpecEngine == EngineInit /\ [][EngineNext]_vars

(***************************************************************************)
(* Search and sort over a comparison result                                *)
(***************************************************************************)
ViewInit ==
    /\ file1 = None /\ file2 = None
    /\ columns1 = FieldOrder /\ columns2 = FieldOrder
    /\ \E p \in ViewPairs : data1 = p[1] /\ data2 = p[2]
    /\ keyField \in Fields
    /\ excludedColumns = {}
    /\ results = Some(CompareDatasets(data1, data2, keyField, excludedColumns))
    /\ searchTerm = <<>>
    /\ sortField = ""
    /\ sortAscending = TRUE
    /\ loading = FALSE
    /\ error = ""
    /\ displayResults = DisplayResults(results, searchTerm, sortField, sortAscending)
    /\ pendingUploads = {}

\* onChange of the search box, which is rendered when displayResults is set
SetSearchTerm(term) ==
    /\ displayResults # None
    /\ searchTerm' = term
    /\ displayResults' = DisplayResults(results, term, sortField, sortAscending)
    /\ UNCHANGED <<file1, file2, columns1, columns2, data1, data2, keyField,
                   excludedColumns, results, sortField, sortAscending, loading,
                   error, pendingUploads>>

\* The column headers that can be clicked: the key field's and those of the
\* available columns that are neither excluded nor the key field.
SortableColumns ==
    {keyField} \cup
    {col \in AvailableColumns(columns1, columns2) :
        col \notin excludedColumns /\ col # keyField}

\* onClick of a column header of the results table, which is rendered when
\* displayResults.allDiffs is not empty
ClickSort(col) ==
    /\ displayResults # None
    /\ Len(displayResults[1].allDiffs) > 0
    /\ col \in SortableColumns
    /\ IF sortField = col
       THEN /\ sortAscending' = ~sortAscending
            /\ UNCHANGED sortField
       ELSE /\ sortField' = col
            /\ sortAscending' = TRUE
    /\ displayResults' = DisplayResults(results, searchTerm, sortField', sortAscending')
    /\ UNCHANGED <<file1, file2, columns1, columns2, data1, data2, keyField,
                   excludedColumns, results, searchTerm, loading, error,
                   pendingUploads>>

ViewNext ==
    \/ \E term \in SearchTerms : SetSearchTerm(term)
    \/ \E col \in Fields : ClickSort(col)

SpecView == ViewInit /\ [][ViewNext]_vars

(***************************************************************************)
(* excelUtils: a parsed sheet is its header row (field names) and its body *)
(* rows (cell values)                                                      *)
(***************************************************************************)
\* getColumnHeaders: rows[0], for headers that are non-empty strings
GetColumnHeaders(sheet) == sheet.headers

\* rows.length
SheetLength(sheet) == 1 + Len(sheet.body)

\* obj[header] = row[index] !== undefined ? row[index] : '', for each header in
\* turn: a header that occurs twice keeps the cell of its last column.
CellOf(sheet, cells, f) ==
    LET index == CHOOSE k \in DOMAIN sheet.headers :
                    /\ sheet.headers[k] = f
                    /\ \A m \in DOMAIN sheet.headers : sheet.headers[m] = f => m <= k
    IN  IF index <= Len(cells) THEN cells[index] ELSE Str(<<>>)

\* convertRowsToJSON
ConvertRowsToJSON(sheet) ==
    [i \in DOMAIN sheet.body |->
        [f \in Fields |->
            IF \E k \in DOMAIN sheet.headers : sheet.headers[k] = f
            THEN CellOf(sheet, sheet.body[i], f)
            ELSE Absent]]

(***************************************************************************)
(* CompareDashboard                                                        *)
(***************************************************************************)
\* The files the user picks: two sheets with rows, a sheet without the id
\* column, a sheet with the header row only, and a file that parseExcelFile
\* rejects.
SampleFiles ==
    { [name |-> "month1.xlsx", readable |-> TRUE, headers |-> <<"id", "name">>,
       body |-> << <<Str(<<"1">>), Str(<<"a">>)>>, <<Num(0), Str(<<"a">>)>> >>],
      [name |-> "month2.xlsx", readable |-> TRUE, headers |-> <<"id", "name">>,
       body |-> << <<Str(<<"1">>), Str(<<"B">>)>>, <<Str(<<" ", "1", " ">>)>> >>],
      [name |-> "names.xlsx", readable |-> TRUE, headers |-> <<"name">>,
       body |-> << <<Str(<<"a">>)>> >>],
      [name |-> "header.xlsx", readable |-> TRUE, headers |-> <<"id", "name">>,
       body |-> <<>>],
      [name |-> "broken.xlsx", readable |-> FALSE, headers |-> <<>>,
       body |-> <<>>] }

\* The terms typed into the search box.
DashboardSearchTerms == {<<>>, <<"a">>}

\* The column headers clicked to sort.
SortedColumns == {"name"}

\* The columns whose exclusion check box is used.
ToggledColumns == {"name"}

\* Uploads in flight at a time.
MaxPendingUploads == 1

\* The messages of setError
ErrorUpload == "upload failed"

ErrorNoRows == "file needs a header row and data"

ErrorNeedFiles == "both files are needed"

ErrorNeedKey == "a key field is needed"

ErrorEmptyFile == "a file is empty"

ErrorExport == "export failed"

Init ==
    /\ file1 = None /\ file2 = None
    /\ columns1 = <<>> /\ columns2 = <<>>
    /\ data1 = <<>> /\ data2 = <<>>
    /\ keyField = ""
    /\ excludedColumns = {}
    /\ results = None
    /\ searchTerm = <<>>
    /\ sortField = ""
    /\ sortAscending = TRUE
    /\ loading = FALSE
    /\ error = ""
    /\ displayResults = None
    /\ pendingUploads = {}

\* handleFileUpload up to its await: setError('') and parseExcelFile(file)
StartUpload(file, isFirstFile) ==
    /\ Cardinality(pendingUploads) < MaxPendingUploads
    /\ error' = ""
    /\ pendingUploads' = pendingUploads \cup {[file |-> file, isFirstFile |-> isFirstFile]}
    /\ UNCHANGED <<file1, file2, columns1, columns2, data1, data2, keyField,
                   excludedColumns, results, searchTerm, sortField,
                   sortAscending, loading, displayResults>>

\* handleFileUpload after its await: the promise is rejected, or the sheet is
\* too short, or the file, its columns and its rows are stored.
FinishUpload(upload) ==
    /\ upload \in pendingUploads
    /\ pendingUploads' = pendingUploads \ {upload}
    /\ IF ~upload.file.readable
       THEN /\ error' = ErrorUpload
            /\ UNCHANGED <<file1, file2, columns1, columns2, data1, data2>>
       ELSE IF SheetLength(upload.file) < 2
       THEN /\ error' = ErrorNoRows
            /\ UNCHANGED <<file1, file2, columns1, columns2, data1, data2>>
       ELSE IF upload.isFirstFile
       THEN /\ file1' = Some(upload.file.name)
            /\ columns1' = GetColumnHeaders(upload.file)
            /\ data1' = ConvertRowsToJSON(upload.file)
            /\ UNCHANGED <<file2, columns2, data2, error>>
       ELSE /\ file2' = Some(upload.file.name)
            /\ columns2' = GetColumnHeaders(upload.file)
            /\ data2' = ConvertRowsToJSON(upload.file)
            /\ UNCHANGED <<file1, columns1, data1, error>>
    /\ UNCHANGED <<keyField, excludedColumns, results, searchTerm, sortField,
                   sortAscending, loading, displayResults>>

\* Mutant of DisplayedTotal: the total of the filtered result is shown.
DisplayedTotalOfResult(shown) == shown.total

\* The number in the total box of the summary: displayResults.allDiffs.length
DisplayedTotal(shown) == Len(shown.allDiffs)

\* The configuration section is rendered.
ConfigurationShown ==
    /\ file1 # None
    /\ file2 # None
    /\ AvailableColumns(columns1, columns2) # {}

\* Mutant of SetKeyField: a new key field discards the stored results.
SetKeyFieldClearsResults(value) ==
    /\ ConfigurationShown
    /\ value \in AvailableColumns(columns1, columns2) \cup {""}
    /\ keyField' = value
    /\ results' = None
    /\ displayResults' = None
    /\ UNCHANGED <<file1, file2, columns1, columns2, data1, data2,
                   excludedColumns, searchTerm, sortField, sortAscending,
                   loading, error, pendingUploads>>

\* onChange of the key field select
SetKeyField(value) ==
    /\ ConfigurationShown
    /\ value \in AvailableColumns(columns1, columns2) \cup {""}
    /\ keyField' = value
    /\ UNCHANGED <<file1, file2, columns1, columns2, data1, data2,
                   excludedColumns, results, searchTerm, sortField,
                   sortAscending, loading, error, displayResults,
                   pendingUploads>>

\* toggleExcludedColumn
ToggleExcludedColumn(column) ==
    /\ ConfigurationShown
    /\ column \in AvailableColumns(columns1, columns2)
    /\ excludedColumns' = IF column \in excludedColumns
                          THEN excludedColumns \ {column}
                          ELSE excludedColumns \cup {column}
    /\ UNCHANGED <<file1, file2, columns1, columns2, data1, data2, keyField,
                   results, searchTerm, sortField, sortAscending, loading,
                   error, displayResults, pendingUploads>>

\* handleCompare, from the compare button, which is rendered with the
\* configuration section and disabled while loading or without a key field.
HandleCompare ==
    /\ ConfigurationShown
    /\ ~(loading \/ keyField = "")
    /\ IF file1 = None \/ file2 = None
       THEN /\ error' = ErrorNeedFiles
            /\ UNCHANGED <<results, loading>>
       ELSE IF keyField = ""
       THEN /\ error' = ErrorNeedKey
            /\ UNCHANGED <<results, loading>>
       ELSE IF Len(data1) = 0 \/ Len(data2) = 0
       THEN /\ error' = ErrorEmptyFile
            /\ UNCHANGED <<results, loading>>
       ELSE /\ results' = Some(CompareDatasets(data1, data2, keyField, excludedColumns))
            /\ error' = ""
            /\ loading' = FALSE
    /\ displayResults' = DisplayResults(results', searchTerm, sortField, sortAscending)
    /\ UNCHANGED <<file1, file2, columns1, columns2, data1, data2, keyField,
                   excludedColumns, searchTerm, sortField, sortAscending,
                   pendingUploads>>

\* handleExport, from the export button, which is rendered in the
\* configuration section when there are rows to show; exportToExcel writes the
\* file or throws.
HandleExport(thrown) ==
    /\ ConfigurationShown
    /\ displayResults # None
    /\ Len(displayResults[1].allDiffs) > 0
    /\ error' = IF thrown THEN ErrorExport ELSE error
    /\ UNCHANGED <<file1, file2, columns1, columns2, data1, data2, keyField,
                   excludedColumns, results, searchTerm, sortField,
                   sortAscending, loading, displayResults, pendingUploads>>

Next ==
    \/ \E file \in SampleFiles, isFirstFile \in BOOLEAN : StartUpload(file, isFirstFile)
    \/ \E upload \in pendingUploads : FinishUpload(upload)
    \/ \E value \in KeyFieldNames : SetKeyField(value)
    \/ \E column \in ToggledColumns : ToggleExcludedColumn(column)
    \/ HandleCompare
    \/ \E term \in DashboardSearchTerms : SetSearchTerm(term)
    \/ \E col \in SortedColumns : ClickSort(col)
    \/ \E thrown \in BOOLEAN : HandleExport(thrown)

Spec == Init /\ [][Next]_vars

(***************************************************************************)
(* Properties                                                              *)
(***************************************************************************)
\* The Key of a row as the specification defines it: the normalized value of
\* the row's key field.
SpecKey(row) == NormalizeValue(Get(row, keyField))

HasSpecKey(data, key) == \E i \in DOMAIN data : SpecKey(data[i]) = key

\* The last row of data with the given Key.
LastRowWithKey(data, key) ==
    data[CHOOSE i \in DOMAIN data :
            /\ SpecKey(data[i]) = key
            /\ \A j \in DOMAIN data : SpecKey(data[j]) = key => j <= i]

\* Some record of diffs reports the given Key.
Reports(diffs, key) == \E i \in DOMAIN diffs : Trim(diffs[i].keyValue) = key

ExactlyOne(a, b, c) == (a /\ ~b /\ ~c) \/ (~a /\ b /\ ~c) \/ (~a /\ ~b /\ c)

\* The Key is in both datasets and its rows have no field difference.
UnchangedKey(key) ==
    /\ HasSpecKey(data1, key)
    /\ HasSpecKey(data2, key)
    /\ \A f \in Fields \ excludedColumns :
          NormalizeValue(Get(LastRowWithKey(data1, key), f)) =
          NormalizeValue(Get(LastRowWithKey(data2, key), f))

\* C1: every row of data1 with a non-empty key is in exactly one of removed,
\* changed, unchanged, and every row of data2 with a non-empty key is in
\* exactly one of added, changed, unchanged.
C1_Partition ==
    results # None =>
        /\ \A i \in DOMAIN data1 :
              SpecKey(data1[i]) # <<>> =>
                  ExactlyOne(Reports(results[1].removed, SpecKey(data1[i])),
                             Reports(results[1].changed, SpecKey(data1[i])),
                             UnchangedKey(SpecKey(data1[i])))
        /\ \A i \in DOMAIN data2 :
              SpecKey(data2[i]) # <<>> =>
                  ExactlyOne(Reports(results[1].added, SpecKey(data2[i])),
                             Reports(results[1].changed, SpecKey(data2[i])),
                             UnchangedKey(SpecKey(data2[i])))

AllReported(res) == res.added \o res.removed \o res.changed

HasDuplicateKey(data) ==
    \E i, j \in DOMAIN data :
        /\ i < j
        /\ KeyValueOf(data[i], keyField) # <<>>
        /\ KeyValueOf(data[i], keyField) = KeyValueOf(data[j], keyField)

C3_TotalInvariant ==
    results # None =>
        results[1].total = Len(results[1].added) + Len(results[1].removed)
                           + Len(results[1].changed)

\* A result with changed records and added records.
C3_Witness ==
    /\ results # None
    /\ results[1].changed # <<>>
    /\ results[1].added # <<>>
    /\ results[1].total = 2

\* C4: the indexer drops a row exactly when its normalized key is empty, and a
\* row with a non-empty normalized key that is in one dataset only is reported.
C4_DroppedIffEmptyKey ==
    results # None =>
        /\ \A i \in DOMAIN data1 :
              (BuildKeyMap(<<data1[i]>>, keyField) = <<>>) <=> (SpecKey(data1[i]) = <<>>)
        /\ \A i \in DOMAIN data2 :
              (BuildKeyMap(<<data2[i]>>, keyField) = <<>>) <=> (SpecKey(data2[i]) = <<>>)
        /\ data2 = <<>> =>
              \A i \in DOMAIN data1 :
                  SpecKey(data1[i]) # <<>> => Reports(results[1].removed, SpecKey(data1[i]))

\* C5: rows whose key values are equal after normalization are one matched
\* pair: no removed record and added record have the same normalized key.
C5_MatchedByNormalizedKey ==
    results # None =>
        \A i \in DOMAIN results[1].removed, j \in DOMAIN results[1].added :
            NormalizeValue(Get(results[1].removed[i].data1, keyField)) #
            NormalizeValue(Get(results[1].added[j].data2[1], keyField))

\* C6: a dataset compared against itself gives no added, removed or changed
\* record and total 0.
C6_SelfDiffEmpty ==
    (results # None /\ data1 = data2) =>
        /\ results[1].added = <<>>
        /\ results[1].removed = <<>>
        /\ results[1].changed = <<>>
        /\ results[1].total = 0

\* A dataset with a duplicate key and a row without key was compared against
\* itself.
C6_Witness ==
    /\ results # None
    /\ data1 = data2
    /\ HasDuplicateKey(data1)
    /\ \E i \in DOMAIN data1 : KeyValueOf(data1[i], keyField) = <<>>
    /\ \E i, j \in DOMAIN data1 : data1[i] # data1[j]

KeyValues(diffs) == {diffs[i].keyValue : i \in DOMAIN diffs}

\* C7: with a larger excluded set the added and removed sequences are the
\* same and the changed keys are a subset.
C7_ExclusionMonotone ==
    results # None =>
        \A larger \in SUBSET Fields :
            excludedColumns \subseteq larger =>
                LET other == CompareDatasets(data1, data2, keyField, larger)
                IN  /\ other.added = results[1].added
                    /\ other.removed = results[1].removed
                    /\ KeyValues(other.changed) \subseteq KeyValues(results[1].changed)

\* A changed record that excluding one more field makes unchanged, next to an
\* added or removed record.
C7_Witness ==
    /\ results # None
    /\ excludedColumns = {}
    /\ results[1].changed # <<>>
    /\ results[1].added # <<>> \/ results[1].removed # <<>>
    /\ \E f \in Fields :
          CompareDatasets(data1, data2, keyField, {f}).changed = <<>>

\* The entries of a differences object for the given field.
EntriesFor(differences, f) == {i \in DOMAIN differences : differences[i].field = f}

\* The differences are those of rowA and rowB: one entry, of the raw values,
\* for each field of either row that is not excluded and whose normalized
\* values differ, and no other entry.
DifferencesAreOf(differences, rowA, rowB) ==
    \A f \in Fields :
        IF /\ (rowA[f] # Absent \/ rowB[f] # Absent)
           /\ f \notin excludedColumns
           /\ NormalizeValue(Get(rowA, f)) # NormalizeValue(Get(rowB, f))
        THEN /\ Cardinality(EntriesFor(differences, f)) = 1
             /\ \A i \in EntriesFor(differences, f) :
                   /\ differences[i].before = Get(rowA, f)
                   /\ differences[i].after = Get(rowB, f)
        ELSE EntriesFor(differences, f) = {}

\* C8: the field differences of a matched pair are exactly the fields of
\* either row that are not excluded and differ after normalization, each with
\* the raw before and after values.
C8_FieldDifferences ==
    results # None =>
        /\ \A i \in DOMAIN results[1].changed :
              DifferencesAreOf(results[1].changed[i].differences[1],
                               results[1].changed[i].data1,
                               results[1].changed[i].data2[1])
        /\ \A i \in DOMAIN data1, j \in DOMAIN data2 :
              DifferencesAreOf(
                  FindFieldDifferences(data1[i], data2[j], excludedColumns),
                  data1[i], data2[j])

\* A changed record of a field that only the second row has: the raw before
\* value is undefined.
C8_Witness ==
    /\ results # None
    /\ \E i \in DOMAIN results[1].changed :
          \E k \in DOMAIN results[1].changed[i].differences[1] :
              /\ results[1].changed[i].differences[1][k].before = Undefined
              /\ results[1].changed[i].differences[1][k].after.kind = "string"

\* The entries of the index of data1 for a Key.
IndexEntries(data, key) ==
    {j \in DOMAIN BuildKeyMap(data, keyField) :
        Trim(BuildKeyMap(data, keyField)[j].key) = key}

\* Several rows of data have the Key of row i.
KeyIsRepeated(data, i) ==
    \E j \in DOMAIN data : j # i /\ SpecKey(data[j]) = SpecKey(data[i])

\* C9: for every non-empty key that several rows of data1 have, the index has
\* exactly one entry, with the last row of that key, and the removed and
\* changed records of the key carry that row.
C9_LastWriteWins ==
    results # None =>
        \A i \in DOMAIN data1 :
            (SpecKey(data1[i]) # <<>> /\ KeyIsRepeated(data1, i)) =>
                /\ Cardinality(IndexEntries(data1, SpecKey(data1[i]))) = 1
                /\ \A j \in IndexEntries(data1, SpecKey(data1[i])) :
                      BuildKeyMap(data1, keyField)[j].row =
                      LastRowWithKey(data1, SpecKey(data1[i]))
                /\ \A j \in DOMAIN results[1].removed :
                      Trim(results[1].removed[j].keyValue) = SpecKey(data1[i]) =>
                          results[1].removed[j].data1 =
                          LastRowWithKey(data1, SpecKey(data1[i]))
                /\ \A j \in DOMAIN results[1].changed :
                      Trim(results[1].changed[j].keyValue) = SpecKey(data1[i]) =>
                          results[1].changed[j].data1 =
                          LastRowWithKey(data1, SpecKey(data1[i]))

\* The term is empty or has white space only.
IsBlank(term) == \A i \in DOMAIN term : IsSpace(term[i])

\* C10: for a search term that is empty or white space only, the filtered
\* result is the result: same added, removed, changed and total.
C10_FilterIdentity ==
    (results # None /\ IsBlank(searchTerm)) =>
        /\ displayResults # None
        /\ displayResults[1].added = results[1].added
        /\ displayResults[1].removed = results[1].removed
        /\ displayResults[1].changed = results[1].changed
        /\ displayResults[1].total = results[1].total

\* A white-space-only term was entered over a result with records.
C10_Witness ==
    /\ results # None
    /\ searchTerm # <<>>
    /\ IsBlank(searchTerm)
    /\ results[1].total > 0

\* The texts a search looks into: the key of the record and the text of every
\* value of its before-row and of its after-row.
SearchedTexts(diff) ==
    {diff.keyValue}
        \cup {JsString(diff.data1[f]) : f \in {g \in Fields : diff.data1[g] # Absent}}
        \cup (IF diff.data2 = None THEN {}
              ELSE {JsString(diff.data2[1][f]) :
                        f \in {g \in Fields : diff.data2[1][g] # Absent}})

\* Some searched text of the record contains the trimmed term, letter case
\* ignored on both sides.
TermOccursIn(diff, term) ==
    \E text \in SearchedTexts(diff) :
        Includes(ToLowerCase(text), Trim(ToLowerCase(term)))

\* kept is diffs without the records the term does not occur in, the others in
\* their order.
KeepsTheMatching(kept, diffs, term) ==
    kept = SelectSeq(diffs, LAMBDA diff : TermOccursIn(diff, term))

\* C11: for a term that is not blank, each of added, removed and changed of
\* the filtered result is the input's sequence reduced, in its order, to the
\* records whose key, or some before-row value, or some after-row value
\* contains the trimmed term, letter case ignored.
C11_FilterKeepsMatching ==
    (results # None /\ ~IsBlank(searchTerm)) =>
        /\ displayResults # None
        /\ KeepsTheMatching(displayResults[1].added, results[1].added, searchTerm)
        /\ KeepsTheMatching(displayResults[1].removed, results[1].removed, searchTerm)
        /\ KeepsTheMatching(displayResults[1].changed, results[1].changed, searchTerm)

\* A padded upper-case term keeps one record, through a value of a row, and
\* drops another.
C11_Witness ==
    /\ results # None
    /\ searchTerm = <<" ", "B", " ">>
    /\ \E i \in DOMAIN AllReported(results[1]) :
          /\ TermOccursIn(AllReported(results[1])[i], searchTerm)
          /\ ~Includes(ToLowerCase(AllReported(results[1])[i].keyValue), <<"b">>)
    /\ \E i \in DOMAIN AllReported(results[1]) :
          ~TermOccursIn(AllReported(results[1])[i], searchTerm)
    /\ Len(AllReported(displayResults[1])) = 1

\* C12 as stated: for a term that is not blank, the total of the filtered
\* result is the total of the input result.
C12_TotalCarriedOver ==
    (results # None /\ ~IsBlank(searchTerm)) =>
        displayResults[1].total = results[1].total

\* C12: for a term that is not blank, the total of the filtered result is 0,
\* whatever the input's total and the filtered sequences are.
C12_TotalIsZero ==
    (results # None /\ ~IsBlank(searchTerm)) =>
        displayResults[1].total = 0

\* A term that is not blank keeps a record of a result whose total is not 0.
C12_Witness ==
    /\ results # None
    /\ ~IsBlank(searchTerm)
    /\ results[1].total > 0
    /\ Len(AllReported(displayResults[1])) > 0

\* C13: with results, the total the dashboard shows is the number of records
\* the filter keeps of added, removed and changed for the current search
\* term, with and without a sort field, and not the total of the filter.
C13_DisplayedTotal ==
    results # None =>
        /\ displayResults # None
        /\ DisplayedTotal(displayResults[1])
              = Len(FilterResultsBySearch(results[1], searchTerm).added)
                + Len(FilterResultsBySearch(results[1], searchTerm).removed)
                + Len(FilterResultsBySearch(results[1], searchTerm).changed)
        /\ DisplayedTotal(displayResults[1])
              = Len(displayResults[1].added) + Len(displayResults[1].removed)
                + Len(displayResults[1].changed)

\* A sorted, searched view shows fewer records than the result has, and not
\* the total of the filter.
C13_Witness ==
    /\ results # None
    /\ sortField # ""
    /\ ~IsBlank(searchTerm)
    /\ DisplayedTotal(displayResults[1]) > 0
    /\ DisplayedTotal(displayResults[1]) < results[1].total
    /\ DisplayedTotal(displayResults[1]) # displayResults[1].total

\* The records handed to sortDifferences: the filtered added, removed and
\* changed, in this order.
SortInput == AllReported(displayResults[1])

\* Records i and j of the sort's input have equal sort values.
Tie(i, j) == SortCompare(SortInput[i], SortInput[j], sortField, sortAscending) = 0

\* C14: sorting keeps the records, and two records with equal sort values keep
\* their relative order of the input, ascending and descending; when all
\* records tie the output is the input.
C14_SortStable ==
    (displayResults # None /\ sortField # "") =>
        /\ Len(displayResults[1].allDiffs) = Len(SortInput)
        /\ \A i, j \in DOMAIN SortInput :
              (i < j /\ Tie(i, j)) =>
                  \E m, n \in DOMAIN displayResults[1].allDiffs :
                      /\ m < n
                      /\ displayResults[1].allDiffs[m] = SortInput[i]
                      /\ displayResults[1].allDiffs[n] = SortInput[j]
        /\ (\A i, j \in DOMAIN SortInput : Tie(i, j)) =>
              displayResults[1].allDiffs = SortInput

\* A descending sort of two different records that tie.
C14_Witness ==
    /\ displayResults # None
    /\ sortField # ""
    /\ ~sortAscending
    /\ Len(SortInput) = 2
    /\ SortInput[1] # SortInput[2]
    /\ Tie(1, 2)

\* The sort value C15 states: the before-row's field when present with a
\* non-empty text, else the after-row's field when present, else the empty
\* string; lowercased.
StatedSortValue(diff, sf) ==
    IF /\ sf \in Fields
       /\ diff.data1[sf] # Absent
       /\ diff.data1[sf].kind \notin {"null", "undefined"}
       /\ JsString(diff.data1[sf]) # <<>>
    THEN ToLowerCase(JsString(diff.data1[sf]))
    ELSE IF /\ sf \in Fields
            /\ diff.data2 # None
            /\ diff.data2[1][sf] # Absent
            /\ diff.data2[1][sf].kind \notin {"null", "undefined"}
         THEN ToLowerCase(JsString(diff.data2[1][sf]))
         ELSE <<>>

\* C15: the sort value of a record is the stated one (a numeric 0 of the
\* before-row counts as present), and the sorted records are in non-decreasing
\* order of it when ascending, non-increasing when descending.
C15_SortValueAndOrder ==
    (displayResults # None /\ sortField # "") =>
        /\ \A i \in DOMAIN displayResults[1].allDiffs :
              SortValue(displayResults[1].allDiffs[i], sortField)
                  = StatedSortValue(displayResults[1].allDiffs[i], sortField)
        /\ \A i, j \in DOMAIN displayResults[1].allDiffs :
              i < j =>
                  IF sortAscending
                  THEN ~StringLess(StatedSortValue(displayResults[1].allDiffs[j], sortField),
                                   StatedSortValue(displayResults[1].allDiffs[i], sortField))
                  ELSE ~StringLess(StatedSortValue(displayResults[1].allDiffs[i], sortField),
                                   StatedSortValue(displayResults[1].allDiffs[j], sortField))

\* The distinct non-empty Keys of the rows of data.
SpecKeysOf(data) == {SpecKey(data[i]) : i \in DOMAIN data} \ {<<>>}

\* diffs has one record for each of the given Keys.
OneRecordPerKey(diffs, keys) ==
    /\ Len(diffs) = Cardinality(keys)
    /\ \A key \in keys : Reports(diffs, key)

\* C16: compared with an empty data1, the result has no removed and no changed
\* record and one added record per distinct non-empty key of data2; compared
\* with an empty data2, no added and no changed record and one removed record
\* per distinct non-empty key of data1.
C16_EmptyDataset ==
    results # None =>
        /\ data1 = <<>> =>
              /\ results[1].removed = <<>>
              /\ results[1].changed = <<>>
              /\ OneRecordPerKey(results[1].added, SpecKeysOf(data2))
        /\ data2 = <<>> =>
              /\ results[1].added = <<>>
              /\ results[1].changed = <<>>
              /\ OneRecordPerKey(results[1].removed, SpecKeysOf(data1))

\* The key field is empty or a column of neither file.
KeyFieldUnusable ==
    keyField = "" \/ keyField \notin AvailableColumns(columns1, columns2)

\* C17: a compare request made while the key field is empty or a field of
\* neither dataset signals an error and stores no result, after any uploads,
\* key selections and compare requests.
C17_UnusableKeyRefused ==
    [][(KeyFieldUnusable /\ HandleCompare) => (error' # "" /\ results' = results)]_vars

\* The values read from the rows of both datasets, missing fields included.
ValuesOfRows ==
    {Get(data1[i], f) : i \in DOMAIN data1, f \in Fields}
        \cup {Get(data2[i], f) : i \in DOMAIN data2, f \in Fields}

\* The string s with a space before and after it.
Padded(s) == Str(<<" ">> \o s \o <<" ">>)

\* C18: normalizeValue gives a string for every value, the empty string for
\* null and undefined, and for a string the same result with and without a
\* space added on both sides.
C18_NormalizeValue ==
    results # None =>
        \A v \in ValuesOfRows :
            /\ NormalizeValue(v) \in Seq({NormalizeValue(v)[k] : k \in DOMAIN NormalizeValue(v)})
            /\ v.kind \in {"null", "undefined"} => NormalizeValue(v) = <<>>
            /\ v.kind = "string" => NormalizeValue(Padded(v.s)) = NormalizeValue(v)

\* Compared rows hold null, a missing field and a string with white space
\* before it whose normalized text is not empty.
C18_Witness ==
    /\ results # None
    /\ Null \in ValuesOfRows
    /\ Undefined \in ValuesOfRows
    /\ \E v \in ValuesOfRows :
          /\ v.kind = "string"
          /\ v.s # <<>>
          /\ IsSpace(Head(v.s))
          /\ NormalizeValue(v) # <<>>

\* The rows of data whose key string, as the index computes it, is key.
RowsWithKeyValue(data, key) ==
    {i \in DOMAIN data : KeyValueOf(data[i], keyField) = key}

FirstOccurrence(data, key) ==
    CHOOSE i \in RowsWithKeyValue(data, key) :
        \A j \in RowsWithKeyValue(data, key) : i <= j

LastOccurrence(data, key) ==
    CHOOSE i \in RowsWithKeyValue(data, key) :
        \A j \in RowsWithKeyValue(data, key) : j <= i

\* C19 as stated: the records of removed and of changed are in the order of
\* the last rows of their keys in data1, those of added in the order of the
\* last rows of their keys in data2.
C19_LastSeenOrder ==
    results # None =>
        /\ \A i, j \in DOMAIN results[1].removed :
              i < j => LastOccurrence(data1, results[1].removed[i].keyValue)
                          < LastOccurrence(data1, results[1].removed[j].keyValue)
        /\ \A i, j \in DOMAIN results[1].changed :
              i < j => LastOccurrence(data1, results[1].changed[i].keyValue)
                          < LastOccurrence(data1, results[1].changed[j].keyValue)
        /\ \A i, j \in DOMAIN results[1].added :
              i < j => LastOccurrence(data2, results[1].added[i].keyValue)
                          < LastOccurrence(data2, results[1].added[j].keyValue)

\* C19: the records of removed and of changed are in the order of the first
\* rows of their keys in data1, those of added in the order of the first rows
\* of their keys in data2.
C19_FirstSeenOrder ==
    results # None =>
        /\ \A i, j \in DOMAIN results[1].removed :
              i < j => FirstOccurrence(data1, results[1].removed[i].keyValue)
                          < FirstOccurrence(data1, results[1].removed[j].keyValue)
        /\ \A i, j \in DOMAIN results[1].changed :
              i < j => FirstOccurrence(data1, results[1].changed[i].keyValue)
                          < FirstOccurrence(data1, results[1].changed[j].keyValue)
        /\ \A i, j \in DOMAIN results[1].added :
              i < j => FirstOccurrence(data2, results[1].added[i].keyValue)
                          < FirstOccurrence(data2, results[1].added[j].keyValue)

\* Two keys are removed, and the key that is seen first is also seen last.
C19_Witness ==
    /\ results # None
    /\ Len(results[1].removed) = 2
    /\ FirstOccurrence(data1, results[1].removed[1].keyValue)
          < FirstOccurrence(data1, results[1].removed[2].keyValue)
    /\ LastOccurrence(data1, results[1].removed[2].keyValue)
          < LastOccurrence(data1, results[1].removed[1].keyValue)

\* The guards of handleCompare pass: both files, a key field, rows on both
\* sides.
CompareGuardsPass ==
    /\ file1 # None
    /\ file2 # None
    /\ keyField # ""
    /\ Len(data1) > 0
    /\ Len(data2) > 0

\* C20: the stored results change only in a handleCompare whose guards pass,
\* to the comparison of the current inputs; every other step (an upload, a
\* key selection, an exclusion toggle, a search, a sort, an export, a refused
\* compare) leaves them as they are.
C20_ResultsChangeOnlyInCompare ==
    [][results' # results =>
          /\ CompareGuardsPass
          /\ results' = Some(CompareDatasets(data1, data2, keyField, excludedColumns))
          /\ UNCHANGED <<file1, file2, columns1, columns2, data1, data2,
                         keyField, excludedColumns, searchTerm, sortField,
                         sortAscending, pendingUploads>>]_vars

\* The stored results are not the comparison of the current inputs: a file,
\* the key field or the exclusions changed after the last compare.
C20_Witness ==
    /\ results # None
    /\ results[1].total > 0
    /\ CompareGuardsPass
    /\ results # Some(CompareDatasets(data1, data2, keyField, excludedColumns))

====
